---- MODULE Spec2Model ----
(***************************************************************************)
(* Model of the log_server daemon (src/src/main.rs): the main task, the    *)
(* retention loop (start_log_cleanup_task / cleanup_old_logs), the ingest  *)
(* supervisor (start_kafka_consumer / kafka_consumer_loop) and the         *)
(* partition writer (log_with_level) over a small file system.             *)
(*                                                                         *)
(* Time is an integer count of milliseconds.  Instant 0 is local midnight  *)
(* at the start of 2024-12-31.  The local zone has offset 0 at instant 0   *)
(* and at most one transition (a forward gap or a backward overlap).       *)
(***************************************************************************)
EXTENDS Integers, Sequences, FiniteSets, TLC

VARIABLES
    config,         \* the Config record read by load_config
    tz,             \* the local time zone of the process (chrono's Local)
    now,            \* the wall clock, in ms
    main_pc,        \* position of main: "boot", "supervising", "exited", "failed"
    fs,             \* the file system: path -> node
    ret_pc,         \* position of start_log_cleanup_task: "off", "schedule", "sleeping"
    ret_wake,       \* instant at which the retention task's sleep ends
    next_cleanup,   \* next_cleanup of the current loop iteration
    sweep_log,      \* what the last cleanup_old_logs call did
    sup,            \* supervisor state: "off", "Disconnected", "Connecting", "Consuming", "Done"
    sup_wake,       \* instant at which the supervisor's current sleep ends
    next_tick,      \* next instant of the 10 s interval of the consume loop
    broker_idx,     \* index of the broker the connect loop is at
    connected,      \* indexes of the brokers the current session has connected to
    attempts,       \* connect attempts of the current session, in order
    message_count,  \* message_count of the current session
    sessions,       \* number of kafka_consumer_loop calls started
    received,       \* number of polls made in all
    arrivals,       \* the messages of the current session whose line was written, in order of reception
    last            \* what the supervisor's last step did

vars == << config, tz, now, main_pc, fs, ret_pc, ret_wake, next_cleanup, sweep_log,
           sup, sup_wake, next_tick, broker_idx, connected, attempts,
           message_count, sessions, received, arrivals, last >>

ret_vars == << ret_pc, ret_wake, next_cleanup, sweep_log >>
sup_vars == << sup, sup_wake, next_tick, broker_idx, connected, attempts,
               message_count, sessions, received, arrivals, last >>

-----------------------------------------------------------------------------
(* Bounds of the model *)

\* the clock stops advancing after this many days
MaxDays == 2
\* the clock of the specification of the first hours stops after this many hours
MaxHours == 1
\* polls of the bus made in all
MaxPolls == 2
\* sessions started in all
MaxSessions == 2

(* Units *)
SecMs == 1000
HourMs == 60 * 60 * SecMs
\* Duration::from_secs(60 * 60 * 24 * retention_days)
DayMs == 60 * 60 * 24 * SecMs
MaxClock == MaxDays * DayMs
\* the horizon of the specification of the first hours
ShortClock == MaxHours * HourMs

None == "None"

Max(a, b) == IF a >= b THEN a ELSE b

-----------------------------------------------------------------------------
(* Local civil time: chrono's DateTime<Local> fields of an instant *)

Pad2Table ==
    << "00", "01", "02", "03", "04", "05", "06", "07", "08", "09",
       "10", "11", "12", "13", "14", "15", "16", "17", "18", "19",
       "20", "21", "22", "23", "24", "25", "26", "27", "28", "29",
       "30", "31", "32", "33", "34", "35", "36", "37", "38", "39",
       "40", "41", "42", "43", "44", "45", "46", "47", "48", "49",
       "50", "51", "52", "53", "54", "55", "56", "57", "58", "59" >>

\* "%m", "%d", "%H", "%M", "%S": two digits, zero padded
Pad2(n) == Pad2Table[n + 1]

\* the two-digit fields, and the number each stands for
Pad2Strings == { Pad2Table[n + 1] : n \in 0..59 }
Unpad2Table == [s \in Pad2Strings |-> CHOOSE n \in 0..59 : Pad2Table[n + 1] = s]
Unpad2(s) == Unpad2Table[s]

\* "%Y"
Year4(y) == IF y = 2024 THEN "2024" ELSE "2025"
UnYear4(s) == IF s = "2024" THEN 2024 ELSE 2025

\* day number d >= 0 counted from 2024-12-31; the calendar of the window
DateOfDay(d) ==
    IF d = 0 THEN [year |-> 2024, month |-> 12, day |-> 31]
    ELSE [year |-> 2025, month |-> 1, day |-> d]

DayOfDate(y, m, d) == IF y = 2024 THEN 0 ELSE d

\* A zone: from instant tz.at on, local time is shifted by tz.shift.  A
\* positive shift is a forward gap (the local times of one hour do not
\* exist), a negative one a backward overlap (they occur twice).
FixedZone == [at |-> 0, shift |-> 0]
GapZone(at) == [at |-> at, shift |-> HourMs]
OverlapZone(at) == [at |-> at, shift |-> 0 - HourMs]

\* the offset of local time at instant t
Offset(t) == IF t >= tz.at THEN tz.shift ELSE 0

\* naive local time (ms since local 2024-12-31 00:00:00) of instant t
NaiveLocal(t) == t + Offset(t)

\* Local::now() / naive_local(): civil fields of instant t (t >= 0)
Civil(t) ==
    LET l == NaiveLocal(t)
        date == DateOfDay(l \div DayMs)
        r == l % DayMs
    IN [year |-> date.year, month |-> date.month, day |-> date.day,
        hour |-> r \div HourMs,
        minute |-> (r % HourMs) \div (60 * SecMs),
        second |-> (r % (60 * SecMs)) \div SecMs]

\* date.and_hms_opt(hh, mm, ss): the naive local time of a civil date-time
InstantOf(y, m, d, hh, mm, ss) ==
    DayOfDate(y, m, d) * DayMs + hh * HourMs + mm * 60 * SecMs + ss * SecMs

\* naive.and_local_timezone(Local): the instants whose local time is l; none
\* (LocalResult::None), one (Single) or two (Ambiguous)
and_local_timezone(l) ==
    { t \in {l, l - tz.shift} : NaiveLocal(t) = l }

\* variant: the latest of a non-empty set of instants
Earliest_Latest(ts) == CHOOSE t \in ts : \A u \in ts : t >= u

\* the earliest of a non-empty set of instants
Earliest(ts) == CHOOSE t \in ts : \A u \in ts : t <= u

\* format(TIMESTAMP_FORMAT): "%Y-%m-%d %H:%M:%S"
FormatTimestamp(c) ==
    << Year4(c.year), "-", Pad2(c.month), "-", Pad2(c.day), " ",
       Pad2(c.hour), ":", Pad2(c.minute), ":", Pad2(c.second) >>

\* NaiveDateTime::parse_from_str(timestamp, TIMESTAMP_FORMAT)
ParseTimestamp(ts) ==
    [year |-> UnYear4(ts[1]), month |-> Unpad2(ts[3]), day |-> Unpad2(ts[5]),
     hour |-> Unpad2(ts[7]), minute |-> Unpad2(ts[9]), second |-> Unpad2(ts[11])]

-----------------------------------------------------------------------------
(* Levels *)

\* variant of the conversion: the string as it is
ToUpper_Identity(s) == s

\* str::to_uppercase on the level strings of the model
ToUpper(s) ==
    CASE s \in {"trace", "Trace"} -> "TRACE"
      [] s \in {"debug", "Debug"} -> "DEBUG"
      [] s \in {"info", "Info"} -> "INFO"
      [] s \in {"warn", "Warn", "wArN"} -> "WARN"
      [] s \in {"error", "Error"} -> "ERROR"
      [] s \in {"fatal", "Fatal"} -> "FATAL"
      [] s = "verbose" -> "VERBOSE"
      [] s = "warning" -> "WARNING"
      [] OTHER -> s

\* LogLevel::from_str
LogLevel_from_str(level) ==
    LET u == ToUpper(level)
    IN CASE u = "TRACE" -> "Trace"
         [] u = "DEBUG" -> "Debug"
         [] u = "INFO" -> "Info"
         [] u = "WARN" -> "Warn"
         [] u = "ERROR" -> "Error"
         [] u = "FATAL" -> "Fatal"
         [] OTHER -> None

\* LogLevel::to_abbreviation
to_abbreviation(l) ==
    CASE l = "Trace" -> "T"
      [] l = "Debug" -> "D"
      [] l = "Info" -> "I"
      [] l = "Warn" -> "W"
      [] l = "Error" -> "E"
      [] l = "Fatal" -> "F"

\* get_level_abbreviation
get_level_abbreviation(level) ==
    IF LogLevel_from_str(level) # None
    THEN to_abbreviation(LogLevel_from_str(level))
    ELSE "I"

-----------------------------------------------------------------------------
(* The file system: a function from paths (sequences of names) to nodes.   *)
(* A directory's mtime changes when an entry is created or removed         *)
(* directly in it; a file's mtime changes when it is written.              *)

DEFAULT_LOG_PATH == "logs"

DirNode(t) == [kind |-> "dir", mtime |-> t, lines |-> << >>]
FileNode(t, ls) == [kind |-> "file", mtime |-> t, lines |-> ls]

Parent(p) == SubSeq(p, 1, Len(p) - 1)
Prefixes(p) == { SubSeq(p, 1, k) : k \in 1..Len(p) }
IsPrefix(p, q) == Len(p) <= Len(q) /\ SubSeq(q, 1, Len(p)) = p
IsDir(f, p) == p \in DOMAIN f /\ f[p].kind = "dir"

\* fs::create_dir_all(p) at instant t: creates the missing directories of
\* the chain; fails if a component exists and is not a directory
CreateDirAllOk(f, p) ==
    \A q \in Prefixes(p) : q \in DOMAIN f => f[q].kind = "dir"

CreateDirAll(f, p, t) ==
    LET missing == { q \in Prefixes(p) : q \notin DOMAIN f }
        touched == { Parent(q) : q \in missing }
    IN [q \in DOMAIN f \cup missing |->
          IF q \in missing THEN DirNode(t)
          ELSE IF q \in touched THEN [f[q] EXCEPT !.mtime = t]
          ELSE f[q]]

\* OpenOptions::new().create(true).append(true).open(p): creates the file if absent
OpenAppend(f, p, t) ==
    IF p \in DOMAIN f THEN f
    ELSE [q \in DOMAIN f \cup {p} |->
            IF q = p THEN FileNode(t, << >>)
            ELSE IF q = Parent(p) THEN [f[q] EXCEPT !.mtime = t]
            ELSE f[q]]

\* variant of the write: the line put before the lines of the file
AppendLine_AtFront(f, p, line, t) ==
    [f EXCEPT ![p] = FileNode(t, << line >> \o f[p].lines)]

\* writeln!(file, ...): one line appended to the open file
AppendLine(f, p, line, t) ==
    [f EXCEPT ![p] = FileNode(t, Append(f[p].lines, line))]

\* variant of the removal: the directory entry alone, not what is below it
RemoveDirAll_Shallow(f, p, t) ==
    [q \in DOMAIN f \ {p} |->
        IF q = Parent(p) THEN [f[q] EXCEPT !.mtime = t] ELSE f[q]]

\* fs::remove_dir_all(p) at instant t
RemoveDirAll(f, p, t) ==
    LET keep == { q \in DOMAIN f : ~IsPrefix(p, q) }
    IN [q \in keep |->
          IF q = Parent(p) THEN [f[q] EXCEPT !.mtime = t] ELSE f[q]]

\* the entries fs::read_dir(p) yields
Children(f, p) == { q \in DOMAIN f : Len(q) = Len(p) + 1 /\ IsPrefix(p, q) }

-----------------------------------------------------------------------------
(* Partition writer *)

\* outcomes of the file system calls of one log_with_level call: no failure,
\* or a failure of create_dir_all, of open or of writeln!, with the error's text
IoOk == [at |-> "none", text |-> "ok"]
IoFailures ==
    { [at |-> "mkdir", text |-> "Connection reset by peer"],
      [at |-> "open", text |-> "Permission denied"],
      [at |-> "write", text |-> "Connection reset by peer"] }

\* variant of the line: the level text as received, not its abbreviation
FormatLine_FullLevel(timestamp, level, content) ==
    << "[" >> \o timestamp \o << "] [", level, "] ", content, "\n" >>

\* "[{}] [{}] {}\n"
FormatLine(timestamp, level, content) ==
    << "[" >> \o timestamp \o << "] [", get_level_abbreviation(level), "] ", content, "\n" >>

\* <DEFAULT_LOG_PATH>/YYYY/MM/DD; the file HH.log in it is the node named HH
LogDir(c) == << DEFAULT_LOG_PATH, Year4(c.year), Pad2(c.month), Pad2(c.day) >>
LogFile(c) == LogDir(c) \o << Pad2(c.hour) >>

\* what log_with_level returns when a file system call failed
WriterFailureResult(io) == [ok |-> TRUE, text |-> "ok"]

\* log_with_level(level, content, timestamp) at instant t, on file system f
log_with_level(f, level, content, timestamp, t, io) ==
    LET c == ParseTimestamp(timestamp)
        dir == LogDir(c)
        file == LogFile(c)
        f1 == CreateDirAll(f, dir, t)
        f2 == OpenAppend(f1, file, t)
    IN IF io.at = "mkdir" \/ ~CreateDirAllOk(f, dir)
       THEN [fs |-> f, result |-> WriterFailureResult(io), appended |-> FALSE,
             reported |-> TRUE]
       ELSE IF io.at = "open"
       THEN [fs |-> f1, result |-> WriterFailureResult(io), appended |-> FALSE,
             reported |-> TRUE]
       ELSE IF io.at = "write"
       THEN [fs |-> f2, result |-> WriterFailureResult(io), appended |-> FALSE,
             reported |-> TRUE]
       ELSE [fs |-> AppendLine(f2, file, FormatLine(timestamp, level, content), t),
             result |-> [ok |-> TRUE, text |-> "ok"], appended |-> TRUE,
             reported |-> FALSE]

-----------------------------------------------------------------------------
(* Record normalizer: serde_json::from_str::<KafkaMessage> *)

Absent == [type |-> "absent", text |-> ""]
Str(s) == [type |-> "string", text |-> s]
Num(s) == [type |-> "number", text |-> s]

\* a payload: JSON text that is an object with the fields L, S and X (each
\* possibly absent), or text that is no JSON value at all
Object(l, s, x) == [wellformed |-> TRUE, L |-> l, S |-> s, X |-> x, junk |-> ""]
Junk(w) == [wellformed |-> FALSE, L |-> Absent, S |-> Absent, X |-> Absent, junk |-> w]

Payloads ==
    { Object(Str("WARN"), Str("disk nearly full"), Absent),
      Object(Str("INFO"), Absent, Absent),
      Object(Num("5"), Str("x"), Absent),
      Object(Str("INFO"), Absent, Str("request timeout")),
      Junk("not json") }

\* the words of the raw message text
RawWords(p) ==
    IF ~p.wellformed THEN << p.junk >>
    ELSE (IF p.L.type = "absent" THEN << >> ELSE << "L", p.L.text >>)
      \o (IF p.S.type = "absent" THEN << >> ELSE << "S", p.S.text >>)
      \o (IF p.X.type = "absent" THEN << >> ELSE << "X", p.X.text >>)

\* the deserializer: Ok with the two strings, or serde's error text
Decode(p) ==
    IF ~p.wellformed THEN [ok |-> FALSE, err |-> "expected value", l |-> "", s |-> ""]
    ELSE IF p.L.type = "number" \/ p.S.type = "number"
    THEN [ok |-> FALSE, err |-> "invalid type: integer, expected a string", l |-> "", s |-> ""]
    ELSE IF p.L.type = "absent"
    THEN [ok |-> FALSE, err |-> "missing field L", l |-> "", s |-> ""]
    ELSE IF p.S.type = "absent"
    THEN [ok |-> FALSE, err |-> "missing field S", l |-> "", s |-> ""]
    ELSE [ok |-> TRUE, err |-> "", l |-> p.L.text, s |-> p.S.text]

\* process_kafka_message(message) at instant t: the result and the new file system.
\* An error is the sequence of the words of its text.
process_kafka_message(f, p, t, io) ==
    LET d == Decode(p)
        timestamp == FormatTimestamp(Civil(t))
        w == log_with_level(f, d.l, d.s, timestamp, t, io)
    IN IF ~d.ok
       THEN [fs |-> f, ok |-> FALSE,
             err |-> << "jiexi Kafka xiaoxi shibai", d.err, "yuanshi xiaoxi" >> \o RawWords(p),
             decoded |-> FALSE, appended |-> FALSE, reported |-> FALSE, writer_ok |-> TRUE]
       ELSE [fs |-> w.fs, ok |-> w.result.ok, err |-> << w.result.text >>,
             decoded |-> TRUE, appended |-> w.appended, reported |-> w.reported,
             writer_ok |-> w.result.ok]

-----------------------------------------------------------------------------
(* Connection-error classification *)

\* the tokens of is_connection_error; the last three stand for the source's
\* Chinese tokens "lianjie shibai" (connect failed), "wangluo zhongduan"
\* (network interrupted) and "lianjie zhongduan" (connection interrupted)
connection_errors ==
    { "connection refused", "connection reset", "network unreachable", "timeout",
      "broken pipe", "lianjie shibai", "wangluo zhongduan", "lianjie zhongduan" }

\* str::to_lowercase on the texts of the model
ToLower(w) ==
    CASE w = "Connection reset by peer" -> "connection reset by peer"
      [] w = "Permission denied" -> "permission denied"
      [] w = "WARN" -> "warn"
      [] w = "INFO" -> "info"
      [] w = "L" -> "l"
      [] w = "S" -> "s"
      [] w = "X" -> "x"
      [] w = "jiexi Kafka xiaoxi shibai" -> "jiexi kafka xiaoxi shibai"
      [] OTHER -> w

\* str::contains on the (lower-case) texts of the model
Contains(w, tok) ==
    \/ w = tok
    \/ w = "connection reset by peer" /\ tok = "connection reset"
    \/ w = "request timeout" /\ tok = "timeout"
    \/ w = "moni wangluo lianjie zhongduan" /\ tok = "lianjie zhongduan"

is_connection_error_CaseSensitive(error_msg) ==
    \E tok \in connection_errors :
        \E i \in 1..Len(error_msg) : Contains(error_msg[i], tok)

is_connection_error(error_msg) ==
    \E tok \in connection_errors :
        \E i \in 1..Len(error_msg) : Contains(ToLower(error_msg[i]), tok)

-----------------------------------------------------------------------------
(* Configuration *)

\* str::parse::<u32> on the strings of the model: an optional '+' and then
\* one or more decimal digits; -1 if the string is not a number (among them
\* "", "ab", "-1" and " 1")
ParseU32(s) ==
    IF s \in Pad2Strings THEN Unpad2(s)
    ELSE CASE s = "+07" -> 7
           [] s = "007" -> 7
           [] s = "60" -> 60
           [] s = "99" -> 99
           [] OTHER -> -1

\* Option<String> cleanup_time: the parts of the string between the ':', or
\* the empty sequence for an absent cleanup_time
NoCleanupTime == << >>

\* parse_cleanup_time: time_str is given as its parts between the ':'
parse_cleanup_time(parts) ==
    LET hour == ParseU32(parts[1])
        minute == ParseU32(parts[2])
        second == IF Len(parts) = 3 THEN ParseU32(parts[3]) ELSE 0
        bad == [ok |-> FALSE, hour |-> 0, minute |-> 0, second |-> 0]
    IN IF Len(parts) # 2 /\ Len(parts) # 3 THEN bad
       ELSE IF hour = -1 \/ minute = -1 \/ second = -1 THEN bad
       ELSE IF hour > 23 \/ minute > 59 \/ second > 59 THEN bad
       ELSE [ok |-> TRUE, hour |-> hour, minute |-> minute, second |-> second]

validate_kafka_config(k) ==
    k.brokers # << >> /\ k.topics # << >> /\ k.group_id # ""

validate_config(c) ==
    /\ c.logging.retention_days # 0
    /\ c.logging.cleanup_time # NoCleanupTime => parse_cleanup_time(c.logging.cleanup_time).ok
    /\ c.kafka.enabled => validate_kafka_config(c.kafka)

\* SocketAddr::from_str on the broker strings of the model
ParsesAsSocketAddr(b) == b \in {"10.0.0.1:9092", "10.0.0.2:9092", "10.0.0.3:9092"}

\* the configurations of the model: the bus enabled with three brokers of which
\* the first has no parsable address, enabled with one broker, and disabled
MakeConfig(path, rd, en, bl, ri) ==
    [logging |-> [path |-> path, retention_days |-> rd, cleanup_time |-> NoCleanupTime],
     kafka |-> [enabled |-> en, brokers |-> bl, group_id |-> "log_server",
                topics |-> << "logs" >>, reconnect_interval_ms |-> ri]]

Configs ==
    { MakeConfig("logs", 1, TRUE, << "kafka-a", "10.0.0.2:9092", "10.0.0.3:9092" >>, 5000),
      MakeConfig("/var/log/X", 2, TRUE, << "10.0.0.1:9092" >>, 0),
      MakeConfig("/var/log/X", 7, FALSE, << "10.0.0.1:9092" >>, 5000) }

-----------------------------------------------------------------------------
(* Retention *)

\* Duration::num_seconds: whole seconds, truncated toward zero
num_seconds(d) == IF d >= 0 THEN d \div SecMs ELSE 0 - ((0 - d) \div SecMs)

\* variant of the test: a trigger equal to now still counts as today's
TriggerPassed_Late(t, next_datetime) == t > next_datetime

\* now >= next_datetime: today's trigger is not in the future
TriggerPassed(t, next_datetime) == t >= next_datetime

\* get_next_cleanup_time(now, cleanup_time)
get_next_cleanup_time(t, cleanup_time) ==
    LET hms == IF cleanup_time = NoCleanupTime
               THEN [ok |-> TRUE, hour |-> 1, minute |-> 0, second |-> 0]
               ELSE parse_cleanup_time(cleanup_time)
        c == Civil(t)
        next == InstantOf(c.year, c.month, c.day, hms.hour, hms.minute, hms.second)
        resolved == and_local_timezone(next)
        next_datetime == Earliest(resolved)
    IN IF ~hms.ok THEN [ok |-> FALSE, time |-> 0]
       ELSE IF resolved = {} THEN [ok |-> FALSE, time |-> 0]
       ELSE IF TriggerPassed(t, next_datetime)
       THEN [ok |-> TRUE, time |-> next_datetime + DayMs]
       ELSE [ok |-> TRUE, time |-> next_datetime]

\* variant of the fallback: one hour ahead whatever today's 01:00:00 is
DefaultCleanupTime_PlusHour(t) == t + HourMs

\* the fallback of start_log_cleanup_task: today's 01:00:00 if it is a single
\* instant, otherwise now + 1 hour
DefaultCleanupTime(t) ==
    LET c == Civil(t)
        resolved == and_local_timezone(InstantOf(c.year, c.month, c.day, 1, 0, 0))
    IN IF Cardinality(resolved) = 1 THEN Earliest(resolved) ELSE t + HourMs

\* variants of the comparison: the boundary instant taken as expired, and a
\* cutoff one day too early
NotExpired_Strict(modified, cutoff_date) == modified > cutoff_date
NotExpired_DayEarly(modified, cutoff_date) == modified >= cutoff_date - DayMs

\* modified >= cutoff_date: the directory has not expired
NotExpired(modified, cutoff_date) == modified >= cutoff_date

\* variant of the loop over the entries: it stops after the first removal
RemoveEach_First(f, ps, t) ==
    IF ps = {} THEN f ELSE RemoveDirAll(f, CHOOSE q \in ps : TRUE, t)

\* the loop over the entries: remove_dir_all on each directory to delete
RECURSIVE RemoveEach(_, _, _)
RemoveEach(f, ps, t) ==
    IF ps = {} THEN f
    ELSE LET p == CHOOSE q \in ps : TRUE
         IN RemoveEach(RemoveDirAll(f, p, t), ps \ {p}, t)

NoSweep ==
    [ran |-> FALSE, at |-> 0, cutoff |-> 0, enumerated |-> FALSE,
     removed |-> {}, unreadable |-> {}, remove_fail |-> {}]

\* the directories cleanup_old_logs decides to delete
ExpiredEntries(f, log_path, cutoff_date, unreadable) ==
    { p \in Children(f, << log_path >>) :
        /\ f[p].kind = "dir"
        /\ p \notin unreadable
        /\ ~NotExpired(f[p].mtime, cutoff_date) }

\* variant of cleanup_old_logs that gives up the whole sweep when one
\* remove_dir_all fails
cleanup_old_logs_StopOnError(f, log_path, retention_days, t, readdir_ok, unreadable, remove_fail) ==
    LET cutoff_date == t - DayMs * retention_days
        expired == ExpiredEntries(f, log_path, cutoff_date, unreadable)
        failed == remove_fail \cap expired
        removed == IF failed = {} THEN expired ELSE {}
    IN [fs |-> IF readdir_ok /\ IsDir(f, << log_path >>)
               THEN RemoveEach(f, removed, t) ELSE f,
        log |-> [ran |-> TRUE, at |-> t, cutoff |-> cutoff_date,
                 enumerated |-> readdir_ok /\ IsDir(f, << log_path >>),
                 removed |-> IF readdir_ok /\ IsDir(f, << log_path >>) THEN removed ELSE {},
                 unreadable |-> {}, remove_fail |-> failed]]

\* cleanup_old_logs(log_path, retention_days) at instant t.  readdir_ok: read_dir
\* succeeds; unreadable: entries whose metadata cannot be read; remove_fail:
\* entries whose remove_dir_all fails
cleanup_old_logs(f, log_path, retention_days, t, readdir_ok, unreadable, remove_fail) ==
    LET cutoff_date == t - DayMs * retention_days
        expired == ExpiredEntries(f, log_path, cutoff_date, unreadable)
        removed == expired \ remove_fail
    IN IF ~(readdir_ok /\ IsDir(f, << log_path >>))
       THEN [fs |-> f,
             log |-> [ran |-> TRUE, at |-> t, cutoff |-> cutoff_date, enumerated |-> FALSE,
                      removed |-> {}, unreadable |-> {}, remove_fail |-> {}]]
       ELSE [fs |-> RemoveEach(f, removed, t),
             log |-> [ran |-> TRUE, at |-> t, cutoff |-> cutoff_date, enumerated |-> TRUE,
                      removed |-> removed,
                      unreadable |-> unreadable \cap ExpiredEntries(f, log_path, cutoff_date, {}),
                      remove_fail |-> remove_fail \cap expired]]

-----------------------------------------------------------------------------
(* Initial state *)

\* a file system left by an earlier run: an old year directory with one
\* partition file, and a plain file in the log root
OldMtime == 0 - 10 * DayMs

OldFs ==
    LET paths == { << "logs" >>, << "logs", "2023" >>, << "logs", "2023", "12" >>,
                   << "logs", "2023", "12", "25" >>,
                   << "logs", "2023", "12", "25", "10" >>, << "logs", "README" >> }
    IN [p \in paths |->
          IF p = << "logs", "README" >> THEN FileNode(OldMtime, << << "notes" >> >>)
          ELSE IF Len(p) = 5
          THEN FileNode(OldMtime,
                        << << "[", "2023", "-", "12", "-", "25", " ", "10", ":", "00", ":",
                              "00", "] [", "I", "] ", "old", "\n" >> >>)
          ELSE DirNode(OldMtime)]

EmptyFs == [p \in {} |-> DirNode(0)]

NoPayload == Junk("")

NoStep ==
    [event |-> "none", payload |-> NoPayload, io |-> IoOk, decoded |-> FALSE,
     appended |-> FALSE, reported |-> FALSE, writer_ok |-> TRUE, ended |-> FALSE,
     checkpoint |-> FALSE, err |-> << >>, started_at |-> 0, ended_at |-> 0,
     ended_from |-> "none"]

\* the process starts with one of configs, in one of zones, on one of the
\* file systems disks, at one of instants
InitAt(configs, zones, disks, instants) ==
    /\ config \in configs
    /\ tz \in zones
    /\ now \in instants
    /\ main_pc = "boot"
    /\ fs \in disks
    /\ ret_pc = "off"
    /\ ret_wake = 0
    /\ next_cleanup = 0
    /\ sweep_log = NoSweep
    /\ sup = "off"
    /\ sup_wake = 0
    /\ next_tick = 0
    /\ broker_idx = 0
    /\ connected = {}
    /\ attempts = << >>
    /\ message_count = 0
    /\ sessions = 0
    /\ received = 0
    /\ arrivals = << >>
    /\ last = NoStep

\* the start at instant 0 in a zone without transition
InitWith(configs, disks) == InitAt(configs, {FixedZone}, disks, {0})

Init == InitWith(Configs, {EmptyFs})

-----------------------------------------------------------------------------
(* main *)

\* init_logging: three lines appended to <path>/YYYY/MM/DD/HH.log
init_logging(f, log_config, t) ==
    LET c == Civil(t)
        timestamp == FormatTimestamp(c)
        log_dir == << log_config.path, Year4(c.year), Pad2(c.month), Pad2(c.day) >>
        log_file == log_dir \o << Pad2(c.hour) >>
        f1 == OpenAppend(CreateDirAll(f, log_dir, t), log_file, t)
        f2 == AppendLine(f1, log_file,
                         FormatLine(timestamp, "INFO", "rizhi xitong yi chushihua"), t)
        f3 == AppendLine(f2, log_file, FormatLine(timestamp, "INFO", "rizhi mulu"), t)
    IN AppendLine(f3, log_file, FormatLine(timestamp, "INFO", "dangqian rizhi wenjian"), t)

\* what main does once the retention task is spawned: run the supervisor if
\* the bus is enabled, otherwise return Ok(()), which ends the process
MainAfterSpawn(enabled) == IF enabled THEN "supervising" ELSE "exited"

\* main, up to the first await of the supervisor
Main ==
    /\ main_pc = "boot"
    /\ IF ~validate_config(config)
       THEN /\ main_pc' = "failed"
            /\ UNCHANGED << fs, ret_pc, sup >>
       ELSE /\ fs' = init_logging(fs, config.logging, now)
            /\ main_pc' = MainAfterSpawn(config.kafka.enabled)
            /\ ret_pc' = "schedule"
            /\ sup' = IF config.kafka.enabled THEN "Disconnected" ELSE "off"
    /\ UNCHANGED << config, tz, now, ret_wake, next_cleanup, sweep_log, sup_wake, next_tick,
                    broker_idx, connected, attempts, message_count, sessions,
                    received, arrivals, last >>

\* the process is running: its tasks are scheduled
Alive == main_pc = "supervising"

-----------------------------------------------------------------------------
(* start_log_cleanup_task *)

\* one iteration of the loop up to the sleep
RetSchedule ==
    /\ Alive
    /\ ret_pc = "schedule"
    /\ LET r == get_next_cleanup_time(now, config.logging.cleanup_time)
           nc == IF r.ok THEN r.time ELSE DefaultCleanupTime(now)
           secs == num_seconds(nc - now)
       IN /\ next_cleanup' = nc
          /\ ret_wake' = IF secs > 0 THEN now + secs * SecMs ELSE now
    /\ ret_pc' = "sleeping"
    /\ UNCHANGED << config, tz, now, main_pc, fs, sweep_log >>
    /\ UNCHANGED sup_vars

\* the faults one sweep can meet: read_dir failing, a directory whose metadata
\* cannot be read, a directory whose remove_dir_all fails; one fault per
\* sweep.  (A fault on an entry that is no directory changes nothing: the
\* entry is skipped before.)
RootDirs(f) == { p \in Children(f, << DEFAULT_LOG_PATH >>) : f[p].kind = "dir" }
NoFaults(f) == { [readdir_ok |-> TRUE, unreadable |-> {}, remove_fail |-> {}] }
AllFaults(f) ==
    { [readdir_ok |-> FALSE, unreadable |-> {}, remove_fail |-> {}] }
      \cup { [readdir_ok |-> TRUE, unreadable |-> {}, remove_fail |-> {}] }
      \cup { [readdir_ok |-> TRUE, unreadable |-> {p}, remove_fail |-> {}] : p \in RootDirs(f) }
      \cup { [readdir_ok |-> TRUE, unreadable |-> {}, remove_fail |-> {p}] : p \in RootDirs(f) }

\* the sleep is over: cleanup_old_logs("logs", retention_days), then loop
RetSweepWith(faults) ==
    /\ Alive
    /\ ret_pc = "sleeping"
    /\ now >= ret_wake
    /\ \E x \in faults :
          LET r == cleanup_old_logs(fs, "logs", config.logging.retention_days, now,
                                    x.readdir_ok, x.unreadable, x.remove_fail)
          IN /\ fs' = r.fs
             /\ sweep_log' = r.log
    /\ ret_pc' = "schedule"
    /\ UNCHANGED << config, tz, now, main_pc, ret_wake, next_cleanup >>
    /\ UNCHANGED sup_vars

RetSweep == RetSweepWith(AllFaults(fs))
RetSweepNoFault == RetSweepWith(NoFaults(fs))

-----------------------------------------------------------------------------
(* start_kafka_consumer / kafka_consumer_loop *)

\* the 10 s interval of the consume loop, the idle sleep and the retry sleep
TickMs == 10 * SecMs
IdleSleepMs == 100
RetrySleepMs == 1 * SecMs

\* connect_to_broker(broker): the address must parse and the TCP connect succeed
connect_to_broker(broker, tcp_ok) == ParsesAsSocketAddr(broker) /\ tcp_ok

\* variants of the loop: one that goes on to the next broker after a success,
\* and one that gives up at the first failure
ConnectLoop_NoBreak(idx, ok, n, conn) ==
    IF ok /\ idx < n
    THEN [to |-> "Connecting", idx |-> idx + 1, connected |-> conn \cup {idx}]
    ELSE IF ok THEN [to |-> "Consuming", idx |-> idx, connected |-> conn \cup {idx}]
    ELSE IF idx < n THEN [to |-> "Connecting", idx |-> idx + 1, connected |-> conn]
    ELSE [to |-> "SessionErr", idx |-> idx, connected |-> conn]
ConnectLoop_GiveUp(idx, ok, n, conn) ==
    IF ok THEN [to |-> "Consuming", idx |-> idx, connected |-> conn \cup {idx}]
    ELSE [to |-> "SessionErr", idx |-> idx, connected |-> conn]

\* one pass of the for loop over the brokers: on success the loop breaks and
\* the session consumes; on failure it goes on to the next broker, and after
\* the last one the session returns Err
ConnectLoop(idx, ok, n, conn) ==
    IF ok THEN [to |-> "Consuming", idx |-> idx, connected |-> conn \cup {idx}]
    ELSE IF idx < n THEN [to |-> "Connecting", idx |-> idx + 1, connected |-> conn]
    ELSE [to |-> "SessionErr", idx |-> idx, connected |-> conn]

\* variant of the match: the next session starts without the sleep
OuterLoop_NoSleep(session_ok, t, reconnect_interval_ms) ==
    IF session_ok THEN [to |-> "Done", wake |-> t]
    ELSE [to |-> "Disconnected", wake |-> t]

\* the match of start_kafka_consumer on the session's result: Ok breaks the
\* loop, Err sleeps reconnect_interval_ms and starts the next session
OuterLoop(session_ok, t, reconnect_interval_ms) ==
    IF session_ok THEN [to |-> "Done", wake |-> t]
    ELSE [to |-> "Disconnected", wake |-> t + reconnect_interval_ms]

\* the loop of start_kafka_consumer calls kafka_consumer_loop
StartSession ==
    /\ Alive
    /\ sup = "Disconnected"
    /\ now >= sup_wake
    /\ sessions < MaxSessions
    /\ sup' = "Connecting"
    /\ broker_idx' = 1
    /\ connected' = {}
    /\ attempts' = << >>
    /\ message_count' = 0
    /\ arrivals' = << >>
    /\ sessions' = sessions + 1
    /\ last' = [NoStep EXCEPT !.event = "start", !.started_at = now,
                              !.ended_at = last.ended_at,
                              !.ended_from = last.ended_from]
    /\ UNCHANGED << config, tz, now, main_pc, fs, sup_wake, next_tick, received >>
    /\ UNCHANGED ret_vars

\* one connect_to_broker call of the session's connect loop; the TCP connect
\* ends as one of tcp_outcomes
ConnectWith(tcp_outcomes) ==
    /\ Alive
    /\ sup = "Connecting"
    /\ \E tcp_ok \in tcp_outcomes :
         LET ok == connect_to_broker(config.kafka.brokers[broker_idx], tcp_ok)
             r == ConnectLoop(broker_idx, ok, Len(config.kafka.brokers), connected)
             o == OuterLoop(FALSE, now, config.kafka.reconnect_interval_ms)
         IN /\ attempts' = Append(attempts, [idx |-> broker_idx, ok |-> ok])
            /\ broker_idx' = r.idx
            /\ connected' = IF r.to = "SessionErr" THEN {} ELSE r.connected
            /\ sup' = IF r.to = "SessionErr" THEN o.to ELSE r.to
            /\ sup_wake' = IF r.to = "SessionErr" THEN o.wake ELSE sup_wake
            /\ next_tick' = IF r.to = "Consuming" THEN now ELSE next_tick
            /\ last' = [NoStep EXCEPT
                          !.event = IF ok THEN "connected" ELSE "connect_failed",
                          !.ended = (r.to = "SessionErr"),
                          !.err = IF r.to = "SessionErr"
                                  THEN << "suoyou broker lianjie shibai" >> ELSE << >>,
                          !.started_at = last.started_at,
                          !.ended_at = IF r.to = "SessionErr" THEN now ELSE last.ended_at,
                          !.ended_from = IF r.to = "SessionErr" THEN "Connecting"
                                         ELSE last.ended_from]
    /\ UNCHANGED << config, tz, now, main_pc, fs, message_count, sessions, received,
                    arrivals >>
    /\ UNCHANGED ret_vars

ConnectAttempt == ConnectWith(BOOLEAN)
ConnectReachable == ConnectWith({TRUE})

\* what simulate_kafka_message_reception can return: a message, no message,
\* or an error
ReceiveErrors ==
    { "moni wangluo lianjie zhongduan", "Connection reset by peer", "queue full" }

Receptions ==
    { [kind |-> "msg", payload |-> p, text |-> ""] : p \in Payloads }
      \cup { [kind |-> "none", payload |-> NoPayload, text |-> ""] }
      \cup { [kind |-> "err", payload |-> NoPayload, text |-> e] : e \in ReceiveErrors }

\* the handling of a received message in kafka_consumer_loop: the session
\* ends iff processing failed with an error classified as a connection error
MessageEndsSession(res) == ~res.ok /\ is_connection_error(res.err)

\* one iteration of the consume loop: tick, receive, process; the bus yields
\* one of receptions and the file system calls end as one of ios
ConsumeWith(receptions, ios) ==
    /\ Alive
    /\ sup = "Consuming"
    /\ now >= Max(sup_wake, next_tick)
    /\ received < MaxPolls
    /\ \E r \in receptions :
       \E io \in ios :
         LET res == process_kafka_message(fs, r.payload, now, io)
             ends == IF r.kind = "msg" THEN MessageEndsSession(res)
                     ELSE IF r.kind = "err" THEN is_connection_error(<< r.text >>)
                     ELSE FALSE
             o == OuterLoop(FALSE, now, config.kafka.reconnect_interval_ms)
             count == IF r.kind = "msg" THEN message_count + 1 ELSE message_count
         IN /\ (r.kind # "msg" \/ ~res.decoded) => io = IoOk
            /\ fs' = IF r.kind = "msg" THEN res.fs ELSE fs
            /\ message_count' = count
            /\ arrivals' = IF r.kind = "msg" /\ res.appended
                           THEN Append(arrivals, [payload |-> r.payload, at |-> now])
                           ELSE arrivals
            /\ sup' = IF ends THEN o.to ELSE "Consuming"
            /\ connected' = IF ends THEN {} ELSE connected
            /\ sup_wake' = IF ends THEN o.wake
                           ELSE IF r.kind = "none" THEN now + IdleSleepMs
                           ELSE IF r.kind = "err" THEN now + RetrySleepMs
                           ELSE sup_wake
            /\ last' = [event |-> r.kind, payload |-> r.payload,
                        io |-> io,
                        decoded |-> r.kind = "msg" /\ res.decoded,
                        appended |-> r.kind = "msg" /\ res.appended,
                        reported |-> (r.kind = "msg" /\ (~res.ok \/ res.reported))
                                       \/ r.kind = "err",
                        writer_ok |-> r.kind = "msg" => res.writer_ok,
                        ended |-> ends,
                        checkpoint |-> r.kind = "msg" /\ ~ends /\ count % 100 = 0,
                        err |-> IF r.kind = "msg" /\ ~res.ok THEN res.err
                                ELSE IF r.kind = "err" THEN << r.text >> ELSE << >>,
                        started_at |-> last.started_at,
                        ended_at |-> IF ends THEN now ELSE last.ended_at,
                        ended_from |-> IF ends THEN "Consuming" ELSE last.ended_from]
    /\ next_tick' = next_tick + TickMs
    /\ received' = received + 1
    /\ UNCHANGED << config, tz, now, main_pc, broker_idx, attempts, sessions >>
    /\ UNCHANGED ret_vars

ConsumeStep == ConsumeWith(Receptions, {IoOk} \cup IoFailures)

\* the consume loop on a healthy bus and disk
GoodReceptions ==
    { [kind |-> "msg", payload |-> Object(Str("WARN"), Str("disk nearly full"), Absent),
       text |-> ""] }
ConsumeGood == ConsumeWith(GoodReceptions, {IoOk})

-----------------------------------------------------------------------------
(* The clock *)

\* the instant of the next local midnight after instant t
NextMidnight(t) ==
    Earliest(and_local_timezone(((NaiveLocal(t) \div DayMs) + 1) * DayMs))

\* the clock moves to the end of a pending sleep or to the next local midnight
ClockTargets ==
    { ret_wake, sup_wake, next_tick, NextMidnight(now) }

AdvanceClockUpTo(limit) ==
    /\ \E t \in ClockTargets :
         /\ t > now
         /\ t <= limit
         /\ now' = t
    /\ UNCHANGED << config, tz, main_pc, fs >>
    /\ UNCHANGED ret_vars
    /\ UNCHANGED sup_vars

AdvanceClock == AdvanceClockUpTo(MaxClock)
AdvanceClockShort == AdvanceClockUpTo(ShortClock)

-----------------------------------------------------------------------------
(* Spec: the whole process over the first hours, every outcome of the bus and
   of the writer's file system calls. *)

Next ==
    \/ Main
    \/ RetSchedule
    \/ RetSweepNoFault
    \/ StartSession
    \/ ConnectAttempt
    \/ ConsumeStep
    \/ AdvanceClockShort

Spec == Init /\ [][Next]_vars

(* SpecRetention: the writer and the retention sweeps over several days, on a
   healthy bus, every fault of the sweep's file system calls. *)

InitRetention ==
    InitWith({ c \in Configs : c.kafka.enabled }, {OldFs})

NextRetention ==
    \/ Main
    \/ RetSchedule
    \/ RetSweep
    \/ StartSession
    \/ ConnectReachable
    \/ ConsumeGood
    \/ AdvanceClock

SpecRetention == InitRetention /\ [][NextRetention]_vars

(* SpecLevels: the whole process over the first hours on a healthy bus and
   disk, the bus delivering records of many level texts. *)

\* level texts: the six names in several cases, and texts that are no level
LevelTexts ==
    { "TRACE", "trace", "DEBUG", "Debug", "INFO", "info", "WARN", "wArN",
      "ERROR", "Error", "FATAL", "fatal", "verbose", "warning", "", "5" }

LevelReceptions ==
    { [kind |-> "msg", payload |-> Object(Str(l), Str("x"), Absent), text |-> ""] :
        l \in LevelTexts }

ConsumeLevels == ConsumeWith(LevelReceptions, {IoOk})

InitLevels ==
    InitWith({ c \in Configs : c.kafka.enabled /\ Len(c.kafka.brokers) = 1 }, {EmptyFs})

NextLevels ==
    \/ Main
    \/ RetSchedule
    \/ RetSweepNoFault
    \/ StartSession
    \/ ConnectReachable
    \/ ConsumeLevels
    \/ AdvanceClockShort

SpecLevels == InitLevels /\ [][NextLevels]_vars

(* SpecSchedule: the retention task alone (the supervisor has not yet started
   its first session), the process started at several instants of the first
   day, with several cleanup times, in zones with and without a transition. *)

MinuteMs == 60 * SecMs

\* cleanup_time absent, "23:59:59" and "02:30"
ScheduleTimes == { NoCleanupTime, << "23", "59", "59" >>, << "02", "30" >> }

ScheduleConfigs ==
    { [MakeConfig("logs", 1, TRUE, << "10.0.0.1:9092" >>, 5000)
          EXCEPT !.logging.cleanup_time = ct] : ct \in ScheduleTimes }

\* no transition; local 02:00 -> 03:00 and local 01:00 -> 02:00 on the first
\* day (forward gaps); local 03:00 -> 02:00 on the first day (backward overlap)
ScheduleZones ==
    { FixedZone, GapZone(2 * HourMs), GapZone(1 * HourMs), OverlapZone(3 * HourMs) }

\* 00:00:00, 00:30:00, 01:00:00, 03:15:00, 23:59:58, 23:59:58.500, 23:59:59
\* and 23:59:59.500 after instant 0
StartInstants ==
    { 0, 30 * MinuteMs, HourMs, 3 * HourMs + 15 * MinuteMs, DayMs - 2 * SecMs,
      DayMs - 2 * SecMs + 500, DayMs - SecMs, DayMs - SecMs + 500 }

InitSchedule == InitAt(ScheduleConfigs, ScheduleZones, {EmptyFs}, StartInstants)

NextSchedule ==
    \/ Main
    \/ RetSchedule
    \/ RetSweepNoFault
    \/ AdvanceClock

SpecSchedule == InitSchedule /\ [][NextSchedule]_vars

\* the process is scheduled and time passes: a step that can be taken is
\* eventually taken
SpecScheduleLive == SpecSchedule /\ WF_vars(NextSchedule)

(* SpecStartup: start-up with valid and invalid configurations, then the
   retention task alone. *)

BaseConfig == MakeConfig("logs", 1, TRUE, << "10.0.0.1:9092" >>, 5000)

\* cleanup_time strings, as their parts between the ':'
StartupTimes ==
    { NoCleanupTime, << "23", "59", "59" >>, << "02", "30" >>, << "00", "00" >>,
      << "24", "00" >>, << "12", "60" >>, << "12", "30", "60" >>, << "12", "30", "99" >>,
      << "ab", "00" >>, << "", "30" >>, << "-1", "00" >>, << " 1", "00" >>,
      << "12" >>, << "12", "00", "00", "00" >>,
      << "+07", "30" >>, << "007", "30" >> }

StartupConfigs ==
    { [BaseConfig EXCEPT !.logging.cleanup_time = ct] : ct \in StartupTimes }
      \cup { [BaseConfig EXCEPT !.logging.retention_days = 0],
             [BaseConfig EXCEPT !.kafka.brokers = << >>],
             [BaseConfig EXCEPT !.kafka.topics = << >>],
             [BaseConfig EXCEPT !.kafka.group_id = ""],
             [BaseConfig EXCEPT !.kafka.brokers = << >>, !.kafka.enabled = FALSE],
             [BaseConfig EXCEPT !.kafka.enabled = FALSE, !.logging.retention_days = 0] }

InitStartup == InitAt(StartupConfigs, {FixedZone}, {EmptyFs, OldFs}, {0, DayMs - SecMs})

SpecStartup == InitStartup /\ [][NextSchedule]_vars

-----------------------------------------------------------------------------
(* Properties of the retention sweep *)

LogRoot == << DEFAULT_LOG_PATH >>

\* a step that is one call of cleanup_old_logs
SweepStep == ret_pc = "sleeping" /\ ret_pc' = "schedule"

\* cutoff = (time of the sweep) - retention_days x 24h
CutoffNow == now - DayMs * config.logging.retention_days

\* the partition files <root>/YYYY/MM/DD/HH.log
PartitionFiles(f) == { p \in DOMAIN f : Len(p) = 5 /\ f[p].kind = "file" }

\* C1: a sweep with retention_days = N never deletes a partition file that was
\* written within the last N x 24h, however writer calls and sweeps interleave.
C1_RecentPartitionSurvives ==
    [][SweepStep =>
         \A p \in PartitionFiles(fs) :
            fs[p].mtime > CutoffNow => p \in DOMAIN fs']_vars

\* C2: a sweep removes an immediate child of the log root only if it is a
\* directory whose metadata was read and whose mtime is before the cutoff.
C2_SweepRemovesOnlyExpiredDirs ==
    [][SweepStep =>
         \A p \in Children(fs, LogRoot) :
            p \notin DOMAIN fs' =>
               /\ fs[p].kind = "dir"
               /\ fs[p].mtime < CutoffNow
               /\ p \notin sweep_log'.unreadable]_vars

\* C2 witness: a sweep has just removed an expired directory while it kept a
\* plain file, a directory whose metadata it could not read and a directory
\* whose mtime is the cutoff exactly.
C2_Witness ==
    /\ sweep_log.ran
    /\ ret_pc = "schedule"
    /\ now = sweep_log.at
    /\ sweep_log.removed # {}
    /\ sweep_log.unreadable # {}
    /\ sweep_log.unreadable \subseteq DOMAIN fs
    /\ << "logs", "README" >> \in DOMAIN fs
    /\ \E p \in RootDirs(fs) : fs[p].mtime = sweep_log.cutoff

\* the sweep of this step met no failing file system call
FaultFreeSweep ==
    /\ sweep_log'.enumerated
    /\ sweep_log'.unreadable = {}
    /\ sweep_log'.remove_fail = {}

\* C3 as stated, for the sweeps in which every file system call succeeded:
\* after the sweep no immediate child directory of the log root whose mtime is
\* at or before the cutoff remains.
C3_NoChildAtOrBeforeCutoff ==
    [][(SweepStep /\ FaultFreeSweep) =>
         \A p \in Children(fs', LogRoot) :
            ~(fs'[p].kind = "dir" /\ fs'[p].mtime <= CutoffNow)]_vars

\* C3 amended: after a sweep that enumerated the log root, every immediate
\* child directory whose mtime is strictly before the cutoff is gone, unless
\* its metadata could not be read or its removal failed.
C3_NoChildBeforeCutoff ==
    [][(SweepStep /\ sweep_log'.enumerated) =>
         \A p \in Children(fs', LogRoot) :
            (fs'[p].kind = "dir" /\ fs'[p].mtime < CutoffNow)
               => p \in sweep_log'.unreadable \cup sweep_log'.remove_fail]_vars

\* C3 witness: a sweep has just removed an expired directory and left one whose
\* mtime is the cutoff exactly.
C3_Witness ==
    /\ sweep_log.ran
    /\ sweep_log.enumerated
    /\ ret_pc = "schedule"
    /\ now = sweep_log.at
    /\ sweep_log.removed # {}
    /\ sweep_log.unreadable = {}
    /\ sweep_log.remove_fail = {}
    /\ \E p \in RootDirs(fs) : fs[p].mtime = sweep_log.cutoff

-----------------------------------------------------------------------------
(* Properties of the main task and of the ingest supervisor *)

\* C4: with a valid configuration and the bus disabled the process stays
\* running: it never exits on its own (so the retention task stays alive).
C4_DisabledBusKeepsRunning ==
    (validate_config(config) /\ ~config.kafka.enabled) => main_pc # "exited"

\* the last step handled a received message whose decoding failed
DecodeFailed == last.event = "msg" /\ ~Decode(last.payload).ok

\* C5: a message whose decoding fails writes no line, is reported, and leaves
\* the session in Consuming, whatever the payload contains.
C5_DecodeFailureIsSkipped ==
    DecodeFailed => (~last.appended /\ last.reported /\ ~last.ended /\ sup = "Consuming")

\* the last step handled a message for which the writer's file system call
\* failed with an error whose text has a connection-error signature
WriterConnectionError ==
    /\ last.event = "msg"
    /\ last.decoded
    /\ last.io.at # "none"
    /\ is_connection_error(<< last.io.text >>)

\* C6: when the writer fails with a connection-error signature the session
\* ends and the supervisor is Disconnected until reconnect_interval_ms is over.
C6_WriterConnectionErrorEndsSession ==
    WriterConnectionError =>
        (last.ended /\ sup = "Disconnected" /\ sup_wake = last.ended_at + config.kafka.reconnect_interval_ms)

\* C7: the writer returns a failure for every failed file system call: it
\* returns Ok only if the line was appended.
C7_WriterSurfacesErrors ==
    (last.event = "msg" /\ last.decoded) =>
        /\ last.writer_ok <=> last.appended
        /\ last.io.at # "none" => ~last.writer_ok

AllFailed(as) == \A i \in 1..Len(as) : ~as[i].ok

\* C8: the endpoints are tried in configured order, none is tried after a
\* success, the session consumes on the first endpoint that connects, and it
\* ends without consuming when every endpoint failed.
C8_EndpointsInOrder ==
    /\ Len(attempts) <= Len(config.kafka.brokers)
    /\ \A i \in 1..Len(attempts) : attempts[i].idx = i
    /\ \A i \in 1..(Len(attempts) - 1) : ~attempts[i].ok
    /\ sup = "Consuming" =>
          /\ attempts # << >>
          /\ attempts[Len(attempts)].ok
          /\ connected = { Len(attempts) }
    /\ sup = "Connecting" => AllFailed(attempts) /\ broker_idx = Len(attempts) + 1
    /\ (last.event = "connect_failed" /\ last.ended) =>
          /\ Len(attempts) = Len(config.kafka.brokers)
          /\ AllFailed(attempts)
          /\ sup = "Disconnected"

\* C8 witness: with three brokers the session consumes on the third after
\* exactly two failed attempts.
C8_Witness ==
    /\ Len(config.kafka.brokers) = 3
    /\ sup = "Consuming"
    /\ Len(attempts) = 3
    /\ ~attempts[1].ok /\ ~attempts[2].ok /\ attempts[3].ok
    /\ connected = {3}

SupTransitions ==
    { << "off", "Disconnected" >>, << "Disconnected", "Connecting" >>,
      << "Connecting", "Consuming" >>, << "Connecting", "Disconnected" >>,
      << "Consuming", "Disconnected" >> }

\* C9: the supervisor makes only the four transitions (after its start in
\* Disconnected); Connecting -> Disconnected happens when every endpoint
\* failed and Consuming -> Disconnected on a classified connection error; a
\* session that follows a session error starts at least reconnect_interval_ms
\* after it and at the head of the endpoint list; a session error never ends
\* the outer loop or the process.
C9_SupervisorTransitions ==
    [][/\ sup' # sup => << sup, sup' >> \in SupTransitions
       /\ (sup = "Connecting" /\ sup' = "Disconnected") =>
             (Len(attempts') = Len(config.kafka.brokers) /\ AllFailed(attempts'))
       /\ (sup = "Consuming" /\ sup' = "Disconnected") =>
             is_connection_error(last'.err)
       /\ (sup = "Disconnected" /\ sup' = "Connecting" /\ sessions >= 1) =>
             /\ now >= last.ended_at + config.kafka.reconnect_interval_ms
             /\ broker_idx' = 1
       /\ (sup = "Connecting" /\ attempts = << >> /\ attempts' # << >>) =>
             attempts'[1].idx = 1
       /\ last'.ended => (sup' = "Disconnected" /\ main_pc' = "supervising")
      ]_vars

\* C9 witness: a second session has started exactly reconnect_interval_ms
\* after the first one ended in Consuming with a connection error.
C9_Witness ==
    /\ sup = "Connecting"
    /\ sessions = 2
    /\ last.ended_from = "Consuming"
    /\ config.kafka.reconnect_interval_ms > 0
    /\ now = last.ended_at + config.kafka.reconnect_interval_ms
    /\ broker_idx = 1

\* C10: the supervisor is connected to at most one endpoint: to exactly one
\* while Consuming and to none otherwise, and every connect attempt is made
\* with no endpoint connected.
C10_AtMostOneEndpoint ==
    /\ [](/\ Cardinality(connected) <= 1
          /\ sup = "Consuming" => Cardinality(connected) = 1
          /\ sup # "Consuming" => connected = {})
    /\ [][attempts' # attempts /\ attempts' # << >> => connected = {}]_vars

\* C10 witness: a second session is connected to the second broker after the
\* first session ended.
C10_Witness ==
    /\ sessions = 2
    /\ sup = "Consuming"
    /\ connected = {2}
    /\ last.ended_from = "Consuming"

-----------------------------------------------------------------------------
(* Properties of the partition writer *)

\* the abbreviation the line format prescribes for a level text
AbbrOf(l) ==
    CASE l \in {"TRACE", "trace", "Trace"} -> "T"
      [] l \in {"DEBUG", "debug", "Debug"} -> "D"
      [] l \in {"INFO", "info", "Info"} -> "I"
      [] l \in {"WARN", "warn", "Warn", "wArN"} -> "W"
      [] l \in {"ERROR", "error", "Error"} -> "E"
      [] l \in {"FATAL", "fatal", "Fatal"} -> "F"
      [] OTHER -> "I"

\* the line prescribed for a record of level l and body b at instant t
ExpectedLine(l, b, t) ==
    LET c == Civil(t)
    IN << "[", Year4(c.year), "-", Pad2(c.month), "-", Pad2(c.day), " ",
          Pad2(c.hour), ":", Pad2(c.minute), ":", Pad2(c.second),
          "] [", AbbrOf(l), "] ", b, "\n" >>

\* the partition file of instant t under root
PartitionFile(root, t) ==
    LET c == Civil(t)
    IN << root, Year4(c.year), Pad2(c.month), Pad2(c.day), Pad2(c.hour) >>

\* a step in which the writer was called for a decoded record and none of
\* its file system calls failed
WriteStep ==
    /\ received' = received + 1
    /\ last'.event = "msg"
    /\ last'.decoded
    /\ last'.io = IoOk

\* the lines of file p in f; none if the file does not exist
LinesOf(f, p) == IF p \in DOMAIN f THEN f[p].lines ELSE << >>

\* C11: a record written through the writer at event time t (file system
\* calls succeeding) leaves the file <root>/YYYY/MM/DD/HH.log of t existing,
\* with exactly the formatted line appended as its last line, and leaves every
\* other file as it was.  The root is the writer's root.
C11_LineInItsPartition ==
    [][WriteStep =>
         LET file == PartitionFile(DEFAULT_LOG_PATH, now)
             d == Decode(last'.payload)
         IN /\ file \in DOMAIN fs'
            /\ fs'[file].kind = "file"
            /\ fs'[file].lines = Append(LinesOf(fs, file), ExpectedLine(d.l, d.s, now))
            /\ \A p \in (DOMAIN fs \cup DOMAIN fs') \ {file} :
                  (p \in DOMAIN fs' /\ fs'[p].kind = "file") =>
                      (p \in DOMAIN fs /\ fs'[p].lines = fs[p].lines)
      ]_vars

\* C11 witness: the record WARN / "disk nearly full" was written in the second
\* hour and is the last line of the file of that hour, the file of the
\* first hour existing beside it.
C11_Witness ==
    /\ last.event = "msg" /\ last.appended
    /\ << "logs", "2024", "12", "31", "01" >> \in DOMAIN fs
    /\ << "logs", "2024", "12", "31", "00" >> \in DOMAIN fs
    /\ LET ls == fs[<< "logs", "2024", "12", "31", "01" >>].lines
       IN ls[Len(ls)] = << "[", "2024", "-", "12", "-", "31", " ", "01", ":", "00", ":",
                            "00", "] [", "W", "] ", "disk nearly full", "\n" >>

\* C12: the writer appends under, and the sweep removes under, the log root
\* of the configuration (logging.path): a written record is the last line of
\* <logging.path>/YYYY/MM/DD/HH.log, and everything a sweep removes lies
\* under logging.path.
C12_ConfiguredRootInUse ==
    [][/\ WriteStep =>
            LET file == PartitionFile(config.logging.path, now)
                d == Decode(last'.payload)
            IN /\ file \in DOMAIN fs'
               /\ fs'[file].lines # << >>
               /\ fs'[file].lines[Len(fs'[file].lines)] = ExpectedLine(d.l, d.s, now)
       /\ SweepStep =>
            \A p \in DOMAIN fs \ DOMAIN fs' : IsPrefix(<< config.logging.path >>, p)
      ]_vars

-----------------------------------------------------------------------------
(* Properties of the retention schedule *)

\* a step that is one computation of next_cleanup by the retention loop
ScheduleStep == ret_pc = "schedule" /\ ret_pc' = "sleeping"

\* the configured time-of-day, in ms after local midnight; 01:00:00 if absent
TimeOfDay ==
    LET parts == config.logging.cleanup_time
    IN IF parts = NoCleanupTime THEN HourMs
       ELSE Unpad2(parts[1]) * HourMs + Unpad2(parts[2]) * MinuteMs
              + (IF Len(parts) = 3 THEN Unpad2(parts[3]) * SecMs ELSE 0)

\* today's local midnight, as naive local time
TodayMidnight == (NaiveLocal(now) \div DayMs) * DayMs

\* the zone has no transition today or later
RegularDays ==
    tz.shift = 0 \/ TodayMidnight > Max(NaiveLocal(tz.at), tz.at)

\* C13: on days without zone irregularity next_trigger is today's instant at
\* the cleanup time-of-day if that is strictly later than now, otherwise
\* tomorrow's; it is strictly later than now and has the configured
\* time-of-day.
C13_NextTriggerStrictlyFuture ==
    [][(ScheduleStep /\ RegularDays) =>
         LET today == TodayMidnight + TimeOfDay
         IN /\ NaiveLocal(next_cleanup') =
                  (IF today > NaiveLocal(now) THEN today ELSE today + DayMs)
            /\ next_cleanup' > now
            /\ NaiveLocal(next_cleanup') % DayMs = TimeOfDay
      ]_vars

\* C13 witness: with cleanup time 23:59:59 the trigger computed at 23:59:59
\* sharp is the next day's 23:59:59.
C13_Witness ==
    /\ ret_pc = "sleeping"
    /\ tz = FixedZone
    /\ config.logging.cleanup_time = << "23", "59", "59" >>
    /\ now = DayMs - SecMs
    /\ next_cleanup = 2 * DayMs - SecMs

\* the instants whose local time is the naive local time l
InstantsAt(l) == { t \in {l - HourMs, l, l + HourMs} : NaiveLocal(t) = l }

\* the configured time-of-day does not exist today
TriggerMissingToday == InstantsAt(TodayMidnight + TimeOfDay) = {}

\* the end of the clock's horizon
Horizon == MaxClock

\* C14: when the configured time-of-day does not exist today the loop takes
\* today's 01:00:00 as trigger if that is a single instant and now + 1 hour
\* otherwise; every sleep of the loop (within the horizon) ends in a sweep, and
\* after every sweep the loop computes a trigger again.
C14_FallbackStillSweeps ==
    /\ [][(ScheduleStep /\ TriggerMissingToday) =>
            LET default == InstantsAt(TodayMidnight + HourMs)
            IN next_cleanup' =
                 (IF Cardinality(default) = 1 THEN Earliest(default) ELSE now + HourMs)
         ]_vars
    /\ (ret_pc = "sleeping" /\ ret_wake <= Horizon)
          ~> (ret_pc = "schedule" /\ sweep_log.ran /\ sweep_log.at >= ret_wake)
    /\ ret_pc = "schedule" ~> ret_pc = "sleeping"

\* C14 witness: started at 00:30 in a zone where 01:00-02:00 does not exist
\* today, with the default cleanup time, the loop fell back to now + 1 hour
\* and its sweep ran at that instant.
C14_Witness ==
    /\ tz = GapZone(HourMs)
    /\ config.logging.cleanup_time = NoCleanupTime
    /\ ret_pc = "schedule"
    /\ sweep_log.ran
    /\ sweep_log.at = 30 * MinuteMs + HourMs
    /\ next_cleanup = 30 * MinuteMs + HourMs

-----------------------------------------------------------------------------
(* Order of the lines of a session *)

\* the lines prescribed for the messages of as that belong to file p
LinesFor(as, p) ==
    LET InFile(a) == PartitionFile(DEFAULT_LOG_PATH, a.at) = p
        mine == SelectSeq(as, InFile)
    IN [i \in 1..Len(mine) |->
          ExpectedLine(Decode(mine[i].payload).l, Decode(mine[i].payload).s, mine[i].at)]

\* sequence s ends with sequence e, or e ends with s
SameTail(s, e) ==
    \A i \in 1..(IF Len(s) <= Len(e) THEN Len(s) ELSE Len(e)) :
        s[Len(s) - i + 1] = e[Len(e) - i + 1]

\* C15: in every partition file the lines of the current session stand at the
\* end of the file in the order in which their messages were received, and a
\* message is polled only when the one before it has been processed.
C15_SessionOrderKept ==
    /\ \A p \in PartitionFiles(fs) : SameTail(fs[p].lines, LinesFor(arrivals, p))
    /\ \A i \in 1..(Len(arrivals) - 1) : arrivals[i].at <= arrivals[i + 1].at
    /\ (arrivals # << >> /\ last.event = "msg" /\ last.appended) =>
          last.payload = arrivals[Len(arrivals)].payload

\* C15 witness: two messages of one session were written to the same file
\* at different instants, and the file ends with their two lines in that order.
C15_Witness ==
    /\ Len(arrivals) = 2
    /\ arrivals[1].at < arrivals[2].at
    /\ PartitionFile(DEFAULT_LOG_PATH, arrivals[1].at) = PartitionFile(DEFAULT_LOG_PATH, arrivals[2].at)
    /\ LET ls == fs[PartitionFile(DEFAULT_LOG_PATH, arrivals[1].at)].lines
       IN /\ Len(ls) >= 2
          /\ ls[Len(ls) - 1] = ExpectedLine("WARN", "disk nearly full", arrivals[1].at)
          /\ ls[Len(ls)] = ExpectedLine("WARN", "disk nearly full", arrivals[2].at)
          /\ ls[Len(ls) - 1] # ls[Len(ls)]

-----------------------------------------------------------------------------
(* Content of the partition tree *)

\* the bodies of the records the bus can deliver
IngestBodies == { Decode(p).s : p \in { q \in Payloads : Decode(q).ok } }

\* the body of a line
BodyOf(line) == line[Len(line) - 1]

\* C16: every line of every partition file under the log root (the configured
\* one and the one the writer uses) is the line of an ingested record; no
\* operational message of the daemon is in the partition tree.
C16_OnlyIngestedLines ==
    \A p \in PartitionFiles(fs) :
        p[1] \in {config.logging.path, DEFAULT_LOG_PATH} =>
            \A i \in 1..Len(fs[p].lines) : BodyOf(fs[p].lines[i]) \in IngestBodies

-----------------------------------------------------------------------------
(* Level parsing *)

\* the level a text names, whatever its case; None if it names no level
LevelNamed(l) ==
    CASE AbbrOf(l) = "T" -> "Trace"
      [] AbbrOf(l) = "D" -> "Debug"
      [] l \in {"INFO", "info", "Info"} -> "Info"
      [] AbbrOf(l) = "W" -> "Warn"
      [] AbbrOf(l) = "E" -> "Error"
      [] AbbrOf(l) = "F" -> "Fatal"
      [] OTHER -> None

\* C17: a record whose level text is one of the six names in any case is
\* parsed to that level and written with its abbreviation; a record with any
\* other level text is written with abbreviation I; in both cases the line is
\* written and no error is reported or ends the session.
C17_LevelParsingTotal ==
    [][WriteStep =>
         LET d == Decode(last'.payload)
             file == PartitionFile(DEFAULT_LOG_PATH, now)
         IN /\ LogLevel_from_str(d.l) = LevelNamed(d.l)
            /\ get_level_abbreviation(d.l) = AbbrOf(d.l)
            /\ last'.appended /\ ~last'.reported /\ ~last'.ended /\ last'.writer_ok
            /\ file \in DOMAIN fs'
            /\ fs'[file].lines[Len(fs'[file].lines)][14] = AbbrOf(d.l)
      ]_vars

\* C17 witness: a record of level "wArN" and then one of level "verbose"
\* were written; the file ends with a line of abbreviation W and one of
\* abbreviation I.
C17_Witness ==
    /\ Len(arrivals) = 2
    /\ arrivals[1].payload.L.text = "wArN"
    /\ arrivals[2].payload.L.text = "verbose"
    /\ PartitionFile(DEFAULT_LOG_PATH, arrivals[1].at) = PartitionFile(DEFAULT_LOG_PATH, arrivals[2].at)
    /\ LET ls == fs[PartitionFile(DEFAULT_LOG_PATH, arrivals[2].at)].lines
       IN /\ Len(ls) >= 2
          /\ ls[Len(ls) - 1][14] = "W"
          /\ ls[Len(ls)][14] = "I"

-----------------------------------------------------------------------------
(* Idempotence of the sweep *)

\* the retention_days of the configurations
RetentionDays == { c.logging.retention_days : c \in Configs }

\* cleanup_old_logs on file system f at the present instant, every file
\* system call succeeding
SweepOf(f, retention_days) ==
    cleanup_old_logs(f, DEFAULT_LOG_PATH, retention_days, now, TRUE, {}, {})

\* C18: on every file system state and at every clock value, a second sweep
\* with the same retention_days at the same clock value removes nothing and
\* leaves the file system as the first sweep left it; so does a sweep that
\* follows a sweep the loop has just run.
C18_SweepIdempotent ==
    /\ [](\A n \in RetentionDays :
            LET one == SweepOf(fs, n).fs
                two == SweepOf(one, n)
            IN two.fs = one /\ two.log.removed = {})
    /\ [][(SweepStep /\ FaultFreeSweep) =>
            /\ SweepOf(fs', config.logging.retention_days).fs = fs'
            /\ SweepOf(fs', config.logging.retention_days).log.removed = {}
         ]_vars

\* C18 witness: the loop has just run a sweep that removed two directories,
\* and directories remain under the log root.
C18_Witness ==
    /\ ret_pc = "schedule"
    /\ sweep_log.ran
    /\ sweep_log.at = now
    /\ Cardinality(sweep_log.removed) = 2
    /\ sweep_log.remove_fail = {} /\ sweep_log.unreadable = {}
    /\ RootDirs(fs) # {}

-----------------------------------------------------------------------------
(* Shape of the partition tree *)

\* sequence s is the beginning of sequence e
IsHead(s, e) == Len(s) <= Len(e) /\ SubSeq(e, 1, Len(s)) = s

\* C19: whenever a partition file exists, its year, month and day directories
\* exist; a partition file disappears only in a sweep, together with the whole
\* subtree of a removed child of the log root, and while it exists it stays a
\* file under the same path and its lines are only added to.
C19_PartitionTreeShape ==
    /\ [](\A p \in PartitionFiles(fs) :
            \A k \in 1..4 : IsDir(fs, SubSeq(p, 1, k)))
    /\ [][\A p \in PartitionFiles(fs) :
            /\ p \notin DOMAIN fs' =>
                  /\ SweepStep
                  /\ SubSeq(p, 1, 2) \in sweep_log'.removed
                  /\ \A q \in DOMAIN fs : IsPrefix(SubSeq(p, 1, 2), q) => q \notin DOMAIN fs'
            /\ p \in DOMAIN fs' =>
                  /\ fs'[p].kind = "file"
                  /\ IsHead(fs[p].lines, fs'[p].lines)
         ]_vars

\* C19 witness: a sweep removed a subtree, and a partition file written after
\* that sweep stands in directories created anew.
C19_Witness ==
    /\ sweep_log.ran
    /\ sweep_log.removed # {}
    /\ \E p \in PartitionFiles(fs) :
          /\ p[1] = DEFAULT_LOG_PATH
          /\ fs[p].mtime > sweep_log.at
          /\ fs[SubSeq(p, 1, 2)].mtime > sweep_log.at

-----------------------------------------------------------------------------
(* Start-up validation *)

\* a cleanup_time of the form HH:MM or HH:MM:SS: two or three two-digit
\* fields (Pad2Strings are "00" to "59"), the hour at most 23
WellFormedTime(parts) ==
    /\ Len(parts) \in {2, 3}
    /\ \A i \in 1..Len(parts) : parts[i] \in Pad2Strings
    /\ Unpad2(parts[1]) <= 23

\* the configurations start-up has to reject
MustReject(c) ==
    \/ c.logging.retention_days = 0
    \/ c.logging.cleanup_time # NoCleanupTime /\ ~WellFormedTime(c.logging.cleanup_time)
    \/ c.kafka.enabled /\ (c.kafka.brokers = << >> \/ c.kafka.topics = << >> \/ c.kafka.group_id = "")

\* C20: once start-up is over, a configuration with retention_days = 0, with
\* a cleanup_time that is not HH:MM or HH:MM:SS in range, or with the bus
\* enabled and no brokers, no topics or no group_id has failed start-up with no
\* task started and no file written; any other configuration has started, and
\* an absent cleanup_time schedules 01:00:00.
C20_StartupValidation ==
    main_pc # "boot" =>
        IF MustReject(config)
        THEN /\ main_pc = "failed"
             /\ ret_pc = "off" /\ sup = "off"
             /\ fs \in {EmptyFs, OldFs}
        ELSE /\ main_pc # "failed"
             /\ (config.logging.cleanup_time = NoCleanupTime /\ ret_pc = "sleeping") =>
                    NaiveLocal(next_cleanup) % DayMs = HourMs

-----------------------------------------------------------------------------
(* Pacing of the sweeps *)

\* C21: no sweep starts before the trigger computed in its iteration, and a
\* sweep that follows another one runs at a later instant, a trigger instant
\* lying between the two.
C21_SweepWaitsForTrigger ==
    [][SweepStep =>
         /\ now >= next_cleanup
         /\ sweep_log.ran => (sweep_log.at < next_cleanup /\ sweep_log.at < now)
      ]_vars

-----------------------------------------------------------------------------
(* The counter checkpoint *)

\* C22: the count of the session is the number of records it has written
\* (messages that fail to decode or to be written do not advance it), it is
\* zero when a session starts, and a step emits the checkpoint exactly when
\* it writes a record that brings that number to a multiple of 100.
C22_CheckpointCountsWrites ==
    /\ sup = "Consuming" => message_count = Len(arrivals)
    /\ last.event = "start" => message_count = 0
    /\ last.checkpoint <=>
          (last.event = "msg" /\ last.appended /\ Len(arrivals) % 100 = 0)

-----------------------------------------------------------------------------
(* Receive errors and idle polls *)

\* the tokens of the classification: the five transport tokens and the
\* synonyms of the upstream library
C23_Tokens ==
    { "connection refused", "connection reset", "network unreachable", "timeout",
      "broken pipe", "lianjie shibai", "wangluo zhongduan", "lianjie zhongduan" }

C23_HasToken(text) == \E tok \in C23_Tokens : Contains(ToLower(text), tok)

\* an iteration of the consume loop
C23_Poll == sup = "Consuming" /\ received' = received + 1

\* C23: a receive error ends the session (the supervisor goes to Disconnected
\* and waits reconnect_interval_ms) iff its lower-cased text contains one of
\* the tokens; any other receive error leaves the session in Consuming with a
\* sleep of 1 s, and an empty poll leaves it in Consuming with a sleep of
\* 100 ms.
C23_ReceiveErrorClassified ==
    [][C23_Poll =>
         /\ last'.event = "err" =>
               /\ Len(last'.err) = 1
               /\ last'.ended <=> C23_HasToken(last'.err[1])
               /\ last'.ended =>
                     /\ sup' = "Disconnected"
                     /\ sup_wake' = now + config.kafka.reconnect_interval_ms
               /\ ~last'.ended =>
                     /\ sup' = "Consuming"
                     /\ sup_wake' = now + 1000
               /\ fs' = fs
               /\ message_count' = message_count
         /\ last'.event = "none" =>
               /\ ~last'.ended
               /\ sup' = "Consuming"
               /\ sup_wake' = now + 100
               /\ fs' = fs
               /\ message_count' = message_count
      ]_vars

\* a second session, begun after a receive error ended the first one, meets
\* a receive error that is not a connection error and keeps consuming
C23_Witness ==
    /\ sessions = 2
    /\ last.ended_from = "Consuming"
    /\ last.event = "err"
    /\ ~last.ended
    /\ sup = "Consuming"
    /\ sup_wake = now + RetrySleepMs

\* a receive error whose text has capitals ended the session
C23_WitnessMixedCase ==
    /\ last.event = "err"
    /\ last.ended
    /\ last.err = << "Connection reset by peer" >>
    /\ sup = "Disconnected"

-----------------------------------------------------------------------------
(* Faults during a sweep *)

\* the directories of the log root that are older than the cutoff of a sweep
\* run at the present instant
C24_Expired ==
    { p \in RootDirs(fs) : fs[p].mtime < CutoffNow }

\* C24: a sweep that meets a fault does not stop retention.  When the removal
\* of one expired directory fails, every other expired directory whose
\* metadata could be read is removed with all it holds and the one that
\* failed stays; when the log root cannot be enumerated nothing is removed.
\* After either the loop is back at the computation of the next trigger and
\* the process is still running.
C24_SweepFaultsContained ==
    /\ [](sweep_log.ran /\ ret_pc = "schedule" => ENABLED RetSchedule)
    /\ [][SweepStep =>
         /\ ret_pc' = "schedule"
         /\ main_pc' = "supervising"
         /\ sweep_log'.enumerated =>
               /\ sweep_log'.remove_fail \subseteq C24_Expired
               /\ \A p \in C24_Expired \ (sweep_log'.remove_fail \cup sweep_log'.unreadable) :
                     \A q \in DOMAIN fs : IsPrefix(p, q) => q \notin DOMAIN fs'
               /\ \A p \in sweep_log'.remove_fail : p \in DOMAIN fs'
         /\ ~sweep_log'.enumerated => fs' = fs
        ]_vars

\* a sweep could not remove one expired directory and removed another one,
\* and the loop has gone on
C24_Witness ==
    /\ sweep_log.ran
    /\ sweep_log.enumerated
    /\ sweep_log.remove_fail # {}
    /\ sweep_log.removed # {}
    /\ sweep_log.remove_fail \subseteq DOMAIN fs
    /\ sweep_log.removed \cap DOMAIN fs = {}
    /\ ret_pc = "schedule"
    /\ main_pc = "supervising"

\* a sweep could not enumerate the log root, and the loop has gone on
C24_WitnessAbandoned ==
    /\ sweep_log.ran
    /\ ~sweep_log.enumerated
    /\ IsDir(fs, << DEFAULT_LOG_PATH, "2023" >>)
    /\ ret_pc = "sleeping"
    /\ ret_wake > sweep_log.at

-----------------------------------------------------------------------------
(* A trigger time-of-day that occurs twice *)

\* the instants of today at the configured time-of-day
C25_TodayInstants == InstantsAt(TodayMidnight + TimeOfDay)

\* C25: when the configured time-of-day occurs twice today, the computation
\* succeeds and next_trigger is the earlier of the two instants if that one is
\* strictly later than now, and that instant plus one day otherwise.
C25_OverlapTakesEarlier ==
    [][(ScheduleStep /\ Cardinality(C25_TodayInstants) = 2) =>
         \E early \in C25_TodayInstants :
            /\ \A u \in C25_TodayInstants : early <= u
            /\ next_cleanup' = (IF early > now THEN early ELSE early + DayMs)
      ]_vars

\* in a zone whose clocks go back from 03:00 to 02:00, with cleanup time
\* 02:30, the trigger computed at 00:30 is the first 02:30 of the day
C25_Witness ==
    /\ ret_pc = "sleeping"
    /\ tz = OverlapZone(3 * HourMs)
    /\ config.logging.cleanup_time = << "02", "30" >>
    /\ now = 30 * MinuteMs
    /\ Cardinality(C25_TodayInstants) = 2
    /\ next_cleanup = 2 * HourMs + 30 * MinuteMs

\* in the same zone the trigger computed at the second 02:15 of the day,
\* between the two instants, is the first 02:30 plus one day
C25_WitnessBetween ==
    /\ ret_pc = "sleeping"
    /\ tz = OverlapZone(3 * HourMs)
    /\ config.logging.cleanup_time = << "02", "30" >>
    /\ now = 3 * HourMs + 15 * MinuteMs
    /\ Cardinality(C25_TodayInstants) = 2
    /\ next_cleanup = DayMs + 2 * HourMs + 30 * MinuteMs

====
